---- MODULE Spec2Model ----
(***************************************************************************)
(* BizZen back end: the GORM active-record models (User, Service, Invoice) *)
(* and the user HTTP handlers, as a state machine over the database tables.*)
(*                                                                         *)
(* A table is the sequence of its rows in primary-key order: row i has     *)
(* ID = i (auto-increment), and a row is never physically removed, because *)
(* every model embeds gorm.Model, whose DeletedAt column turns db.Delete   *)
(* into a soft delete and makes First/Find/Updates skip rows whose         *)
(* DeletedAt is set.  DeletedAt is modelled as a boolean (set / NULL); the *)
(* CreatedAt and UpdatedAt timestamps of gorm.Model are not modelled.      *)
(***************************************************************************)
EXTENDS Integers, Sequences, FiniteSets, TLC

VARIABLES users, services, invoices, appointments, last, http, upd, del

vars == <<users, services, invoices, appointments, last, http, upd, del>>

----------------------------------------------------------------------------
(* Bounds and input domains *)

\* Rows over all tables together (creates are disabled beyond it).
MaxRecords == 2

Emails == {"a@b.com", "x@y.com"}
\* Passwords of login requests; users register with the first.
Passwords == {"secret", "wrong"}
CreatePasswords == {"secret"}
\* Values sent in the body of an update request.
UpdatePasswords == {"hunter2"}
FirstNames == {"Ann"}
ServiceNames == {"Yoga class"}
UpdateServiceNames == {""}
ServicePrices == {2000}
UpdateServicePrices == {5000}
Balances == {1000}
UpdateBalances == {0}
Statuses == {"Unpaid"}
UpdateStatuses == {"Paid"}

\* Errors (Go error values, by their message).
Nil == "nil"
ErrRecordNotFound == "record not found"
ErrNoAppointments == "does not have any appointment records in the database"
ErrServiceMissing == "does not exist in the database, but is associated with Appointment ID"
ErrDuplicatedKey == "UNIQUE constraint failed: users.email"
ErrInvalidCondition == "SQL error: invalid WHERE condition"
ErrMismatchedHashAndPassword == "crypto/bcrypt: hashedPassword is not the hash of the given password"
ErrHashTooShort == "crypto/bcrypt: hashedSecret too short to be a bcrypted password"
ErrDecode == "invalid character in JSON body"
ErrNotNull == "NOT NULL constraint failed"

----------------------------------------------------------------------------
(* Rows *)

ZeroUser ==
  [ID |-> 0, email |-> "", password |-> "", account_type |-> "",
   first_name |-> "", last_name |-> "", business_id |-> 0, DeletedAt |-> FALSE]

ZeroService ==
  [ID |-> 0, business_id |-> 0, name |-> "", desc |-> "", start_date_time |-> 0,
   length |-> 0, capacity |-> 0, cancel_fee |-> 0, price |-> 0, DeletedAt |-> FALSE]

ZeroInvoice ==
  [ID |-> 0, user_id |-> 0, original_balance |-> 0, remaining_balance |-> 0,
   status |-> "", DeletedAt |-> FALSE]

IDs(db) == 1 .. Len(db)

\* The row a query with "id = ? AND deleted_at IS NULL" selects.
Live(db, id) == id \in IDs(db) /\ ~db[id].DeletedAt

\* A JSON null in an updates map (nil in the Go map).
Null == "<null>"

StringColumns ==
  {"email", "password", "account_type", "first_name", "last_name", "name", "desc",
   "status", "cancel_date_time"}

IsNull(updates, k) == k \in StringColumns /\ updates[k] = Null

\* Mutant: Updates given a struct instead of a map, which skips zero values.
ApplyUpdates_SkipZero(rec, updates) ==
  LET zero(k) == IF k \in StringColumns THEN updates[k] \in {"", Null} ELSE updates[k] = 0
  IN [k \in DOMAIN rec |->
        IF k \in DOMAIN updates /\ ~zero(k) THEN updates[k] ELSE rec[k]]

\* Updates(updates) on one row: every key of the map overwrites its column,
\* zero values included; a column whose key is absent keeps its value.  A
\* nil value is written as NULL, which a string field reads back as "".
ApplyUpdates(rec, updates) ==
  [k \in DOMAIN rec |->
     IF k \in DOMAIN updates THEN (IF IsNull(updates, k) THEN "" ELSE updates[k])
     ELSE rec[k]]

\* db.Delete on a model with gorm.Model: UPDATE ... SET deleted_at = now
\* WHERE id = ? AND deleted_at IS NULL.
SoftDelete(db, id) ==
  [i \in IDs(db) |-> IF i = id /\ ~db[i].DeletedAt
                       THEN [db[i] EXCEPT !.DeletedAt = TRUE] ELSE db[i]]

\* Mutant: the statement without its Where, which changes every live row.
WriteUpdates_NoWhere(db, id, updates) ==
  [i \in IDs(db) |-> IF ~db[i].DeletedAt THEN ApplyUpdates(db[i], updates) ELSE db[i]]

\* db.Model(&m).Where("id = ?", id).Updates(updates): the rows it changes.
\* m is the Model interface variable, so the statement's reflect value is of
\* kind Interface, not Struct: GORM takes no primary key from it (hence the
\* explicit Where) and assigns none of the map's values to the struct in
\* memory.  The record Update returns is therefore the one Get read.
WriteUpdates(db, id, updates) ==
  [i \in IDs(db) |-> IF i = id /\ ~db[i].DeletedAt
                       THEN ApplyUpdates(db[i], updates) ELSE db[i]]

Restrict(f, K) == [k \in K |-> f[k]]

----------------------------------------------------------------------------
(* models.User *)

\* bcrypt reads at most the first 72 bytes of a password.  Long72 is 72
\* bytes long and Long73 is Long72 with one more byte; every other
\* password of the model is shorter.
Long72 == "correct horse battery staple correct horse battery staple correct horse!"
Long73 == Long72 \o "?"

TooLong(password) == password = Long73

First72(password) == IF password = Long73 THEN Long72 ELSE password

\* Mutant: a hash that reads only part of the password.
Bcrypt_Weak(password) == "$2a$14$" \o (IF password = "wrong" THEN "secret" ELSE First72(password))

\* The bcrypt hash of a password at cost 14; the salt is abstracted.
Bcrypt(password) == "$2a$14$" \o First72(password)

BcryptHashes ==
  {Bcrypt(p) : p \in Passwords \cup UpdatePasswords \cup {"", "Secret", Long72, Long73}}

ErrPasswordTooLong == "bcrypt: password length exceeds 72 bytes"

\* bcrypt.GenerateFromPassword(password, 14).  Of a password longer than
\* 72 bytes a current x/crypto returns ErrPasswordTooLong and an older one
\* the hash of its first 72 bytes: both outcomes.
GenerateFromPassword(password) ==
  {[bytes |-> Bcrypt(password), err |-> Nil]} \cup
  (IF TooLong(password) THEN {[bytes |-> "", err |-> ErrPasswordTooLong]} ELSE {})

\* The outcomes of user.HashPassword(password): the user after the call and
\* the error returned.
HashPassword(user, password) ==
  {[user |-> IF g.err # Nil THEN user ELSE [user EXCEPT !.password = g.bytes],
    err |-> g.err] : g \in GenerateFromPassword(password)}

\* bcrypt.CompareHashAndPassword(user.Password, providedPassword): hashes
\* the provided password (no length check) and compares.
CheckPassword(user, providedPassword) ==
  IF user.password \notin BcryptHashes THEN ErrHashTooShort
  ELSE IF user.password = Bcrypt(providedPassword) THEN Nil
  ELSE ErrMismatchedHashAndPassword

\* Mutant: the email column has no unique index.
UserCreate_NoIndex(db, user) ==
  LET row == [user EXCEPT !.ID = Len(db) + 1]
  IN [db |-> Append(db, row), rec |-> row, err |-> Nil]

\* db.Create(&user): the unique index on email rejects an email that a
\* row of the table (deleted or not) already holds.
UserCreate(db, user) ==
  IF \E i \in IDs(db) : db[i].email = user.email
    THEN [db |-> db, rec |-> user, err |-> ErrDuplicatedKey]
    ELSE LET row == [user EXCEPT !.ID = Len(db) + 1]
         IN [db |-> Append(db, row), rec |-> row, err |-> Nil]

UserGet(db, userID) ==
  IF Live(db, userID) THEN [rec |-> db[userID], err |-> Nil]
  ELSE [rec |-> ZeroUser, err |-> ErrRecordNotFound]

\* Mutant: the listing is unscoped, deleted rows included.
UserGetAll_Unscoped(db) == [rec |-> db, err |-> Nil]

\* db.Find(&users): the rows whose deleted_at is NULL, by primary key.
UserGetAll(db) == [rec |-> SelectSeq(db, LAMBDA u : ~u.DeletedAt), err |-> Nil]

\* Mutant: the write reports a statement that matched no row.
UserUpdates_RowsAffected(db, userID, updates) ==
  IF ~(userID \in 1 .. Len(db) /\ ~db[userID].DeletedAt)
    THEN [db |-> db, err |-> ErrRecordNotFound]
  ELSE IF /\ "email" \in DOMAIN updates
          /\ \E i \in 1 .. Len(db) : i # userID /\ db[i].email = updates["email"]
    THEN [db |-> db, err |-> ErrDuplicatedKey]
  ELSE [db |-> [i \in 1 .. Len(db) |->
                  IF i = userID
                    THEN [k \in DOMAIN db[i] |->
                            IF k \in DOMAIN updates THEN updates[k] ELSE db[i][k]]
                    ELSE db[i]],
        err |-> Nil]

\* The columns of users declared not null.
UserNotNull == {"email", "password", "account_type", "first_name", "last_name"}

\* The write of Update: a NULL for a not-null column is rejected, and the
\* unique index on email rejects the statement when a row it changes would
\* take another row's email.
UserUpdates(db, userID, updates) ==
  IF Live(db, userID) /\ \E k \in DOMAIN updates \cap UserNotNull : IsNull(updates, k)
    THEN [db |-> db, err |-> ErrNotNull]
  ELSE IF /\ Live(db, userID)
          /\ "email" \in DOMAIN updates
          /\ \E i \in IDs(db) : i # userID /\ db[i].email = updates["email"]
    THEN [db |-> db, err |-> ErrDuplicatedKey]
    ELSE [db |-> WriteUpdates(db, userID, updates), err |-> Nil]

\* Mutant: the error of Get is not checked before the write.
UserUpdate_Unchecked(db, userID, updates) ==
  LET got == UserGet(db, userID)
      w == UserUpdates(db, userID, updates)
  IN [db |-> w.db, rec |-> got.rec, err |-> w.err]

UserUpdate(db, userID, updates) ==
  LET got == UserGet(db, userID) IN
  IF got.err # Nil THEN [db |-> db, rec |-> got.rec, err |-> got.err]
  ELSE LET w == UserUpdates(db, userID, updates)
       IN [db |-> w.db, rec |-> got.rec, err |-> w.err]

\* Mutant: the record is returned as Get read it.
UserDelete_Stale(db, userID) ==
  LET got == UserGet(db, userID) IN
  IF got.err # Nil THEN [db |-> db, rec |-> got.rec, err |-> got.err]
  ELSE [db |-> SoftDelete(db, got.rec.ID), rec |-> got.rec, err |-> Nil]

\* db.Delete(deleteUser) is given the *User itself: the soft delete sets
\* deleted_at on the row and DeletedAt on the struct it was given.
UserDelete(db, userID) ==
  LET got == UserGet(db, userID) IN
  IF got.err # Nil THEN [db |-> db, rec |-> got.rec, err |-> got.err]
  ELSE [db |-> SoftDelete(db, got.rec.ID),
        rec |-> [got.rec EXCEPT !.DeletedAt = TRUE], err |-> Nil]

\* First(&user, userEmail): the string is First's inline condition, not a
\* value for the email column.  A numeric string is taken as the primary
\* key, the empty string as no condition (the first row by primary key),
\* and any other string as a raw SQL condition, which an e-mail address is
\* not.
Atoi == [s \in {"1", "2", "3"} |-> CASE s = "1" -> 1 [] s = "2" -> 2 [] s = "3" -> 3]

GetUserByEmail(db, userEmail) ==
  IF userEmail \in DOMAIN Atoi THEN UserGet(db, Atoi[userEmail])
  ELSE IF userEmail = ""
    THEN IF \E i \in IDs(db) : Live(db, i)
           THEN [rec |-> db[CHOOSE i \in IDs(db) :
                              Live(db, i) /\ \A j \in IDs(db) : Live(db, j) => i <= j],
                 err |-> Nil]
           ELSE [rec |-> ZeroUser, err |-> ErrRecordNotFound]
  ELSE [rec |-> ZeroUser, err |-> ErrInvalidCondition]

----------------------------------------------------------------------------
(* models.Service *)

ServiceCreate(db, service) ==
  LET row == [service EXCEPT !.ID = Len(db) + 1]
  IN [db |-> Append(db, row), rec |-> row, err |-> Nil]

\* Service.Get on a receiver that may hold an earlier result:
\* db.First(&service, serviceID) takes a non-zero primary key of its
\* destination as one more condition of the query (id = serviceID AND
\* id = service.ID), and a query that selects no row leaves the destination
\* as it was.
ServiceGetInto(db, service, serviceID) ==
  IF Live(db, serviceID) /\ service.ID \in {0, serviceID}
    THEN [rec |-> db[serviceID], err |-> Nil]
  ELSE [rec |-> service, err |-> ErrRecordNotFound]

\* Service.Get on a new (zero) receiver.
ServiceGet(db, serviceID) ==
  IF Live(db, serviceID) THEN [rec |-> db[serviceID], err |-> Nil]
  ELSE [rec |-> ZeroService, err |-> ErrRecordNotFound]

ServiceUpdate(db, serviceID, updates) ==
  LET got == ServiceGet(db, serviceID) IN
  IF got.err # Nil THEN [db |-> db, rec |-> got.rec, err |-> got.err]
  ELSE [db |-> WriteUpdates(db, serviceID, updates),
        rec |-> got.rec, err |-> Nil]

\* Mutant: the error of Get is not checked before the delete.
ServiceDelete_Unchecked(db, serviceID) ==
  LET got == ServiceGet(db, serviceID)
  IN [db |-> SoftDelete(db, got.rec.ID),
      rec |-> [got.rec EXCEPT !.DeletedAt = TRUE], err |-> Nil]

ServiceDelete(db, serviceID) ==
  LET got == ServiceGet(db, serviceID) IN
  IF got.err # Nil THEN [db |-> db, rec |-> got.rec, err |-> got.err]
  ELSE [db |-> SoftDelete(db, got.rec.ID),
        rec |-> [got.rec EXCEPT !.DeletedAt = TRUE], err |-> Nil]

----------------------------------------------------------------------------
(* models.Invoice *)

InvoiceCreate(db, invoice) ==
  LET row == [invoice EXCEPT !.ID = Len(db) + 1]
  IN [db |-> Append(db, row), rec |-> row, err |-> Nil]

\* Mutant: the query run unscoped, rows marked deleted included.
InvoiceGet_Unscoped(db, invoiceID) ==
  IF invoiceID \in IDs(db) THEN [rec |-> db[invoiceID], err |-> Nil]
  ELSE [rec |-> ZeroInvoice, err |-> ErrRecordNotFound]

InvoiceGet(db, invoiceID) ==
  IF Live(db, invoiceID) THEN [rec |-> db[invoiceID], err |-> Nil]
  ELSE [rec |-> ZeroInvoice, err |-> ErrRecordNotFound]

InvoiceUpdate(db, invoiceID, updates) ==
  LET got == InvoiceGet(db, invoiceID) IN
  IF got.err # Nil THEN [db |-> db, rec |-> got.rec, err |-> got.err]
  ELSE [db |-> WriteUpdates(db, invoiceID, updates),
        rec |-> got.rec, err |-> Nil]

InvoiceDelete(db, invoiceID) ==
  LET got == InvoiceGet(db, invoiceID) IN
  IF got.err # Nil THEN [db |-> db, rec |-> got.rec, err |-> got.err]
  ELSE [db |-> SoftDelete(db, got.rec.ID),
        rec |-> [got.rec EXCEPT !.DeletedAt = TRUE], err |-> Nil]

----------------------------------------------------------------------------
(* models.Appointment.  The handlers and models.User call it, but its       *)
(* source is not part of the files modelled here: its rows and methods      *)
(* follow the design specification (data model, record store adapter and    *)
(* entity lifecycle manager) and the handlers' documented responses.        *)

NullTime == "null"
\* The time of the request that cancels an appointment.
Now == "2020-01-31T04:20:12"
\* A cancellation time sent in a request body.
BodyTimes == {"2019-12-24T18:00:00"}

ZeroAppointment ==
  [ID |-> 0, service_id |-> 0, user_id |-> 0, cancel_date_time |-> NullTime,
   active |-> FALSE, DeletedAt |-> FALSE]

\* "Active appointments have null cancellation timestamp; cancelling sets
\* both fields together": the active flag decides, the timestamp follows.
AppointmentBeforeSave(appt) ==
  IF appt.active THEN [appt EXCEPT !.cancel_date_time = NullTime]
  ELSE IF appt.cancel_date_time = NullTime THEN [appt EXCEPT !.cancel_date_time = Now]
  ELSE appt

\* A new appointment is active (the documented response to a create).
AppointmentCreate(db, appt) ==
  LET row == AppointmentBeforeSave([appt EXCEPT !.ID = Len(db) + 1, !.active = TRUE])
  IN [db |-> Append(db, row), rec |-> row, err |-> Nil]

AppointmentGet(db, apptID) ==
  IF Live(db, apptID) THEN [rec |-> db[apptID], err |-> Nil]
  ELSE [rec |-> ZeroAppointment, err |-> ErrRecordNotFound]

\* get, merge the keys present in the map, persist, return the merged entity.
AppointmentUpdate(db, apptID, updates) ==
  LET got == AppointmentGet(db, apptID) IN
  IF got.err # Nil THEN [db |-> db, rec |-> got.rec, err |-> got.err]
  ELSE LET merged == AppointmentBeforeSave(ApplyUpdates(got.rec, updates))
       IN [db |-> [db EXCEPT ![apptID] = merged], rec |-> merged, err |-> Nil]

AppointmentDelete(db, apptID) ==
  LET got == AppointmentGet(db, apptID) IN
  IF got.err # Nil THEN [db |-> db, rec |-> got.rec, err |-> got.err]
  ELSE [db |-> SoftDelete(db, got.rec.ID),
        rec |-> [got.rec EXCEPT !.DeletedAt = TRUE], err |-> Nil]

----------------------------------------------------------------------------
(* models.User: the appointments of a user and their services *)

\* The live rows whose user_id column is userID, in id order.
GetRecordsBySecondaryID(db, column, id) ==
  [rec |-> SelectSeq(db, LAMBDA a : ~a.DeletedAt /\ a[column] = id), err |-> Nil]

GetServiceID(appt) == appt.service_id
GetID(appt) == appt.ID

GetAppointments(db, userID) == GetRecordsBySecondaryID(db, "user_id", userID)

\* The loop of GetServiceAppointments from appointment i on.  apptService is
\* the one Service struct every Get reads into; n is the number of elements
\* appended so far, each holding a pointer to that struct.
RECURSIVE ServiceLoop(_, _, _, _, _)
ServiceLoop(svcs, appts, i, apptService, n) ==
  IF i > Len(appts) THEN [n |-> n, apptService |-> apptService, err |-> Nil]
  ELSE LET got == ServiceGetInto(svcs, apptService, GetServiceID(appts[i]))
       IN IF got.err # Nil
            THEN [n |-> n, apptService |-> got.rec, err |-> ErrServiceMissing]
          ELSE ServiceLoop(svcs, appts, i + 1, got.rec, n + 1)

\* The returned list as its reader sees it: every "service" is the struct
\* the pointer leads to when the method returns.
GetServiceAppointments(appts, svcs, userID) ==
  LET got == GetAppointments(appts, userID) IN
  IF got.err # Nil THEN [rec |-> <<>>, err |-> ErrNoAppointments]
  ELSE LET loop == ServiceLoop(svcs, got.rec, 1, ZeroService, 0)
       IN [rec |-> [i \in 1 .. loop.n |->
                      [appointment |-> got.rec[i], service |-> loop.apptService]],
           err |-> loop.err]

\* The store the method is handed: open, or unable to run the query.
ErrDatabase == "sql: database is closed"

\* GetAppointments on a store that may be closed.
GetAppointmentsOn(db, closed, userID) ==
  IF closed THEN [rec |-> <<>>, err |-> ErrDatabase] ELSE GetAppointments(db, userID)

\* The loop of HasServiceAppointment from appointment i on.
RECURSIVE HasServiceLoop(_, _, _)
HasServiceLoop(appts, i, serviceID) ==
  IF i > Len(appts) THEN FALSE
  ELSE IF serviceID = GetServiceID(appts[i]) THEN TRUE
  ELSE HasServiceLoop(appts, i + 1, serviceID)

\* Mutant: only the first appointment of the user is looked at.
HasServiceAppointment_FirstOnly(db, closed, userID, serviceID) ==
  LET got == GetAppointmentsOn(db, closed, userID) IN
  IF got.err # Nil THEN [rec |-> FALSE, err |-> ErrNoAppointments]
  ELSE [rec |-> Len(got.rec) >= 1 /\ GetServiceID(got.rec[1]) = serviceID, err |-> Nil]
HasServiceAppointment(db, closed, userID, serviceID) ==
  LET got == GetAppointmentsOn(db, closed, userID) IN
  IF got.err # Nil THEN [rec |-> FALSE, err |-> ErrNoAppointments]
  ELSE [rec |-> HasServiceLoop(got.rec, 1, serviceID), err |-> Nil]

----------------------------------------------------------------------------
(* What the last model method returned *)

Idle == [op |-> "none"]

Returned(type, op, id, updates, r) ==
  [type |-> type, op |-> op, id |-> id, updates |-> updates,
   rec |-> r.rec, err |-> r.err]

----------------------------------------------------------------------------
(* handlers: the user endpoints.  The handlers call the model under the   *)
(* names CreateUser, GetUser, UpdateUser and DeleteUser; these are the      *)
(* Create, Get, Update and Delete methods of models.User above.             *)

MalformedBody == [valid |-> FALSE]
JSONBody(json) == [valid |-> TRUE, json |-> json]

RespondWithError(writer, status, message) ==
  Append(writer, [status |-> status, error |-> message])

RespondWithJSON(writer, status, payload) ==
  Append(writer, [status |-> status, payload |-> payload])

\* What a handler run leaves behind: the table, the model method's return,
\* the responses written in order, the cookies set, the steps reached and
\* whether the run ended in a panic.
Handled(db, ret, writer, steps, panicked) ==
  [db |-> db, last |-> ret, writer |-> writer, cookies |-> <<>>,
   steps |-> steps, panicked |-> panicked]

\* Mutant: the error of HashPassword is not checked.
CreateUser_HashUnchecked(db, body) ==
  IF ~body.valid
    THEN {Handled(db, Idle, RespondWithError(<<>>, 400, ErrDecode), <<"decode">>, FALSE)}
  ELSE
    LET user == ApplyUpdates(ZeroUser, body.json) IN
    {LET c == UserCreate(db, h.user)
         ret == Returned("User", "Create", 0, body.json, c)
     IN IF c.err # Nil
          THEN Handled(c.db, ret, RespondWithError(<<>>, 500, c.err),
                       <<"decode", "hash", "create">>, FALSE)
        ELSE Handled(c.db, ret, RespondWithJSON(<<>>, 201, c.rec),
                     <<"decode", "hash", "create", "success">>, FALSE)
     : h \in HashPassword(user, user.password)}

\* The outcomes of a CreateUser request (one for each outcome of hashing).
CreateUser(db, body) ==
  IF ~body.valid
    THEN {Handled(db, Idle, RespondWithError(<<>>, 400, ErrDecode), <<"decode">>, FALSE)}
  ELSE
    LET user == ApplyUpdates(ZeroUser, body.json) IN
    {IF h.err # Nil
       THEN Handled(db, Idle, RespondWithError(<<>>, 500, h.err),
                    <<"decode", "hash">>, FALSE)
     ELSE
       LET c == UserCreate(db, h.user)
           ret == Returned("User", "Create", 0, body.json, c)
       IN IF c.err # Nil
            THEN Handled(c.db, ret, RespondWithError(<<>>, 500, c.err),
                         <<"decode", "hash", "create">>, FALSE)
          ELSE Handled(c.db, ret, RespondWithJSON(<<>>, 201, c.rec),
                       <<"decode", "hash", "create", "success">>, FALSE)
     : h \in HashPassword(user, user.password)}

\* Mutant: a failed lookup does not end the handler.
Authenticate_NoReturn(db, body) ==
  IF ~body.valid
    THEN Handled(db, Idle, RespondWithError(<<>>, 400, ErrDecode), <<"decode">>, FALSE)
  ELSE
    LET credentials == body.json
        found == GetUserByEmail(db, credentials.email)
        ret == Returned("User", "GetUserByEmail", 0, <<>>, found)
    IN IF CheckPassword(found.rec, credentials.password) # Nil
         THEN Handled(db, ret, RespondWithError(<<>>, 400, "Incorrect password."),
                      <<"decode", "lookup", "check">>, FALSE)
       ELSE
         LET w == IF found.err # Nil
                    THEN RespondWithError(<<>>, 500, found.err) ELSE <<>>
         IN Handled(db, ret, RespondWithJSON(w, 200, [message |-> "User logged in."]),
                    <<"decode", "lookup", "check", "success">>, FALSE)

Authenticate(db, body) ==
  IF ~body.valid
    THEN Handled(db, Idle, RespondWithError(<<>>, 400, ErrDecode), <<"decode">>, FALSE)
  ELSE
    LET credentials == body.json
        found == GetUserByEmail(db, credentials.email)
        ret == Returned("User", "GetUserByEmail", 0, <<>>, found)
    IN IF found.err # Nil
         THEN Handled(db, ret, <<>>, <<"decode", "lookup">>, FALSE)
       ELSE
         IF CheckPassword(found.rec, credentials.password) # Nil
           THEN Handled(db, ret, RespondWithError(<<>>, 400, "Incorrect password."),
                        <<"decode", "lookup", "check">>, FALSE)
         ELSE
           \* The session code is commented out; err is still the lookup's.
           LET w == IF found.err # Nil
                      THEN RespondWithError(<<>>, 500, found.err) ELSE <<>>
           IN Handled(db, ret, RespondWithJSON(w, 200, [message |-> "User logged in."]),
                      <<"decode", "lookup", "check", "success">>, FALSE)

GetUser(db, userID) ==
  LET got == UserGet(db, userID)
      ret == Returned("User", "Get", userID, <<>>, got)
  IN IF got.err # Nil
       \* RespondWithError, then log.Panicf.
       THEN Handled(db, ret, RespondWithError(<<>>, 404, got.err), <<"get">>, TRUE)
     ELSE Handled(db, ret, RespondWithJSON(<<>>, 200, got.rec), <<"get", "success">>, FALSE)

UpdateUser(db, userID, body) ==
  IF ~body.valid
    THEN Handled(db, Idle, RespondWithError(<<>>, 400, ErrDecode), <<"decode">>, FALSE)
  ELSE
    LET u == UserUpdate(db, userID, body.json)
        ret == Returned("User", "Update", userID, body.json, u)
    IN IF u.err # Nil
         THEN Handled(u.db, ret, RespondWithError(<<>>, 500, u.err),
                      <<"decode", "update">>, FALSE)
       ELSE Handled(u.db, ret, RespondWithJSON(<<>>, 200, u.rec),
                    <<"decode", "update", "success">>, FALSE)

DeleteUser(db, userID) ==
  LET d == UserDelete(db, userID)
      ret == Returned("User", "Delete", userID, <<>>, d)
  IN IF d.err # Nil
       THEN Handled(d.db, ret, RespondWithError(<<>>, 500, d.err), <<"delete">>, FALSE)
     ELSE Handled(d.db, ret, RespondWithJSON(<<>>, 200, d.rec),
                  <<"delete", "success">>, FALSE)

----------------------------------------------------------------------------
(* handlers: the appointment endpoints *)

ErrParseID == "strconv.ParseUint: invalid syntax"

\* The {id} of the request URL: a number, or text that is not one.
MalformedID == [valid |-> FALSE]
URLID(id) == [valid |-> TRUE, id |-> id]

ParseRequestID(url) ==
  IF url.valid THEN [id |-> url.id, err |-> Nil] ELSE [id |-> 0, err |-> ErrParseID]

CreateAppointment(db, body) ==
  IF ~body.valid
    THEN Handled(db, Idle, RespondWithError(<<>>, 400, ErrDecode), <<"decode">>, FALSE)
  ELSE
    LET appt == ApplyUpdates(ZeroAppointment, body.json)
        c == AppointmentCreate(db, appt)
        ret == Returned("Appointment", "Create", 0, body.json, c)
    IN IF c.err # Nil
         THEN Handled(c.db, ret, RespondWithError(<<>>, 500, c.err),
                      <<"decode", "create">>, FALSE)
       ELSE Handled(c.db, ret, RespondWithJSON(<<>>, 201, c.rec),
                    <<"decode", "create", "success">>, FALSE)

GetAppointment(db, url) ==
  LET parsed == ParseRequestID(url) IN
  IF parsed.err # Nil
    THEN Handled(db, Idle, RespondWithError(<<>>, 400, parsed.err), <<"parse">>, FALSE)
  ELSE
    LET got == AppointmentGet(db, parsed.id)
        ret == Returned("Appointment", "Get", parsed.id, <<>>, got)
    IN IF got.err # Nil
         THEN Handled(db, ret, RespondWithError(<<>>, 404, got.err), <<"parse", "get">>, FALSE)
       ELSE Handled(db, ret, RespondWithJSON(<<>>, 200, got.rec),
                    <<"parse", "get", "success">>, FALSE)

\* Mutant: a true PUT, every field the body leaves out is reset.
UpdateAppointment_Put(db, url, body) ==
  LET parsed == ParseRequestID(url) IN
  IF parsed.err # Nil
    THEN Handled(db, Idle, RespondWithError(<<>>, 400, parsed.err), <<"parse">>, FALSE)
  ELSE IF ~body.valid
    THEN Handled(db, Idle, RespondWithError(<<>>, 400, ErrDecode), <<"parse", "decode">>, FALSE)
  ELSE
    LET put == [k \in {"service_id", "user_id", "cancel_date_time", "active"} |->
                  IF k \in DOMAIN body.json THEN body.json[k] ELSE ZeroAppointment[k]]
        u == AppointmentUpdate(db, parsed.id, put)
        ret == Returned("Appointment", "Update", parsed.id, body.json, u)
    IN IF u.err # Nil
         THEN Handled(u.db, ret, RespondWithError(<<>>, 500, u.err),
                      <<"parse", "decode", "update">>, FALSE)
       ELSE Handled(u.db, ret, RespondWithJSON(<<>>, 200, u.rec),
                    <<"parse", "decode", "update", "success">>, FALSE)

UpdateAppointment(db, url, body) ==
  LET parsed == ParseRequestID(url) IN
  IF parsed.err # Nil
    THEN Handled(db, Idle, RespondWithError(<<>>, 400, parsed.err), <<"parse">>, FALSE)
  ELSE IF ~body.valid
    THEN Handled(db, Idle, RespondWithError(<<>>, 400, ErrDecode), <<"parse", "decode">>, FALSE)
  ELSE
    LET u == AppointmentUpdate(db, parsed.id, body.json)
        ret == Returned("Appointment", "Update", parsed.id, body.json, u)
    IN IF u.err # Nil
         THEN Handled(u.db, ret, RespondWithError(<<>>, 500, u.err),
                      <<"parse", "decode", "update">>, FALSE)
       ELSE Handled(u.db, ret, RespondWithJSON(<<>>, 200, u.rec),
                    <<"parse", "decode", "update", "success">>, FALSE)

DeleteAppointment(db, url) ==
  LET parsed == ParseRequestID(url) IN
  IF parsed.err # Nil
    THEN Handled(db, Idle, RespondWithError(<<>>, 400, parsed.err), <<"parse">>, FALSE)
  ELSE
    LET d == AppointmentDelete(db, parsed.id)
        ret == Returned("Appointment", "Delete", parsed.id, <<>>, d)
    IN IF d.err # Nil
         THEN Handled(d.db, ret, RespondWithError(<<>>, 500, d.err),
                      <<"parse", "delete">>, FALSE)
       ELSE Handled(d.db, ret, RespondWithJSON(<<>>, 200, d.rec),
                    <<"parse", "delete", "success">>, FALSE)

----------------------------------------------------------------------------
(* Requests *)

RequestIDs == 1 .. MaxRecords

CreateUserBodies ==
  {MalformedBody} \cup
  {JSONBody(j) : j \in [email : Emails, password : CreatePasswords, first_name : FirstNames]}

CredentialBodies ==
  {MalformedBody} \cup
  {JSONBody(j) : j \in [email : Emails \cup {"1"}, password : Passwords]}

UserUpdateMaps ==
  {Restrict(j, K) :
     j \in [email : Emails, password : UpdatePasswords],
     K \in SUBSET {"email", "password"}}

UpdateUserBodies == {MalformedBody} \cup {JSONBody(j) : j \in UserUpdateMaps}

NewServices ==
  {ApplyUpdates(ZeroService, j) : j \in [business_id : {1}, name : ServiceNames,
                                         price : ServicePrices]}

ServiceUpdateMaps ==
  {Restrict(j, K) : j \in [name : UpdateServiceNames, price : UpdateServicePrices],
                    K \in SUBSET {"name", "price"}}

NewInvoices ==
  {ApplyUpdates(ZeroInvoice, j) :
     j \in [user_id : {1}, original_balance : Balances, remaining_balance : Balances,
            status : Statuses]}

InvoiceUpdateMaps ==
  {Restrict(j, K) : j \in [remaining_balance : UpdateBalances, status : UpdateStatuses],
                    K \in SUBSET {"remaining_balance", "status"}}

NoRequest == [handler |-> "none"]

Request(handler, id, body, h) ==
  [handler |-> handler, id |-> id, body |-> body, writer |-> h.writer,
   cookies |-> h.cookies, steps |-> h.steps, panicked |-> h.panicked]

Records == Len(users) + Len(services) + Len(invoices)

\* A handler run as one step of the sequential system.
Serve(handler, id, body, h) ==
  /\ Len(h.db) > Len(users) => Records < MaxRecords
  /\ users' = h.db
  /\ last' = h.last
  /\ http' = Request(handler, id, body, h)
  /\ UNCHANGED <<services, invoices, appointments, upd, del>>

CreateUserReq ==
  \E body \in CreateUserBodies :
    \E h \in CreateUser(users, body) : Serve("CreateUser", 0, body, h)

AuthenticateReq ==
  \E body \in CredentialBodies : Serve("Authenticate", 0, body, Authenticate(users, body))

GetUserReq == \E id \in RequestIDs : Serve("GetUser", id, MalformedBody, GetUser(users, id))

UpdateUserReq ==
  \E id \in RequestIDs, body \in UpdateUserBodies :
    Serve("UpdateUser", id, body, UpdateUser(users, id, body))

DeleteUserReq ==
  \E id \in RequestIDs : Serve("DeleteUser", id, MalformedBody, DeleteUser(users, id))

\* User.GetAll called on the users table.
UserGetAllCall ==
  /\ last' = Returned("User", "GetAll", 0, <<>>, UserGetAll(users))
  /\ http' = NoRequest
  /\ UNCHANGED <<users, services, invoices, appointments, upd, del>>

\* A Service or Invoice model method called on its table.
CallService(op, id, updates, r) ==
  /\ Len(r.db) > Len(services) => Records < MaxRecords
  /\ services' = r.db
  /\ last' = Returned("Service", op, id, updates, r)
  /\ http' = NoRequest
  /\ UNCHANGED <<users, invoices, appointments, upd, del>>

CallInvoice(op, id, updates, r) ==
  /\ Len(r.db) > Len(invoices) => Records < MaxRecords
  /\ invoices' = r.db
  /\ last' = Returned("Invoice", op, id, updates, r)
  /\ http' = NoRequest
  /\ UNCHANGED <<users, services, appointments, upd, del>>

ServiceCreateCall ==
  \E s \in NewServices : CallService("Create", 0, <<>>, ServiceCreate(services, s))

ServiceUpdateCall ==
  \E id \in RequestIDs, m \in ServiceUpdateMaps :
    CallService("Update", id, m, ServiceUpdate(services, id, m))

ServiceDeleteCall ==
  \E id \in RequestIDs : CallService("Delete", id, <<>>, ServiceDelete(services, id))

InvoiceCreateCall ==
  \E v \in NewInvoices : CallInvoice("Create", 0, <<>>, InvoiceCreate(invoices, v))

InvoiceUpdateCall ==
  \E id \in RequestIDs, m \in InvoiceUpdateMaps :
    CallInvoice("Update", id, m, InvoiceUpdate(invoices, id, m))

InvoiceDeleteCall ==
  \E id \in RequestIDs : CallInvoice("Delete", id, <<>>, InvoiceDelete(invoices, id))

\* No Update / Delete call in flight.
NotRunning == [pc |-> "idle"]

Init ==
  /\ users = <<>>
  /\ services = <<>>
  /\ invoices = <<>>
  /\ appointments = <<>>
  /\ last = Idle
  /\ http = NoRequest
  /\ upd = NotRunning
  /\ del = NotRunning

Next ==
  \/ CreateUserReq
  \/ AuthenticateReq
  \/ GetUserReq
  \/ UpdateUserReq
  \/ DeleteUserReq
  \/ UserGetAllCall
  \/ ServiceCreateCall
  \/ ServiceUpdateCall
  \/ ServiceDeleteCall
  \/ InvoiceCreateCall
  \/ InvoiceUpdateCall
  \/ InvoiceDeleteCall

Spec == Init /\ [][Next]_vars

----------------------------------------------------------------------------
(* Two callers on the users table: one in User.Update, one in User.Delete. *)
(* Each database statement is one step; the caller's locals live in upd    *)
(* and del.  gone records whether the row was already deleted when the     *)
(* write statement ran.                                                     *)

ConcCreate ==
  \E body \in CreateUserBodies :
    \E h \in CreateUser(users, body) :
      /\ body.valid
      /\ Len(h.db) > Len(users) => Len(users) < MaxRecords
      /\ users' = h.db
      /\ UNCHANGED <<services, invoices, appointments, last, http, upd, del>>

\* User.Update up to its return on a failed Get.
UpdateGet ==
  \E id \in RequestIDs, m \in UserUpdateMaps :
    LET got == UserGet(users, id) IN
    /\ upd.pc \in {"idle", "done"}
    /\ upd' = [pc |-> IF got.err # Nil THEN "done" ELSE "got", id |-> id,
               updates |-> m, rec |-> got.rec, err |-> got.err, gone |-> FALSE]
    /\ UNCHANGED <<users, services, invoices, appointments, last, http, del>>

\* The Updates statement of User.Update and its return.
UpdateWrite ==
  LET w == UserUpdates(users, upd.id, upd.updates) IN
  /\ upd.pc = "got"
  /\ users' = w.db
  /\ upd' = [upd EXCEPT !.pc = "done", !.err = w.err, !.gone = ~Live(users, upd.id)]
  /\ UNCHANGED <<services, invoices, appointments, last, http, del>>

\* User.Delete up to its return on a failed Get.
DeleteGet ==
  \E id \in RequestIDs :
    LET got == UserGet(users, id) IN
    /\ del.pc \in {"idle", "done"}
    /\ del' = [pc |-> IF got.err # Nil THEN "done" ELSE "got", id |-> id,
               rec |-> got.rec, err |-> got.err]
    /\ UNCHANGED <<users, services, invoices, appointments, last, http, upd>>

\* The Delete statement of User.Delete and its return.
DeleteWrite ==
  /\ del.pc = "got"
  /\ users' = SoftDelete(users, del.rec.ID)
  /\ del' = [del EXCEPT !.pc = "done", !.rec = [del.rec EXCEPT !.DeletedAt = TRUE],
                        !.err = Nil]
  /\ UNCHANGED <<services, invoices, appointments, last, http, upd>>

NextConc ==
  \/ ConcCreate
  \/ UpdateGet
  \/ UpdateWrite
  \/ DeleteGet
  \/ DeleteWrite

SpecConc == Init /\ [][NextConc]_vars

----------------------------------------------------------------------------
(* The appointment endpoints on their own *)

ServiceRefs == {1}
UserRefs == {2}
UpdateUserRefs == {1}

URLIDs == {MalformedID} \cup {URLID(id) : id \in RequestIDs}

CreateAppointmentBodies ==
  {MalformedBody} \cup
  {JSONBody(Restrict(j, K)) :
     j \in [service_id : ServiceRefs, user_id : UserRefs, active : {FALSE},
            cancel_date_time : BodyTimes],
     K \in {{"service_id", "user_id"}, {"service_id", "user_id", "active"},
            {"service_id", "user_id", "cancel_date_time"}}}

AppointmentUpdateMaps ==
  {Restrict(j, K) :
     j \in [user_id : UpdateUserRefs, active : BOOLEAN, cancel_date_time : BodyTimes],
     K \in SUBSET {"user_id", "active", "cancel_date_time"}}

UpdateAppointmentBodies == {MalformedBody} \cup {JSONBody(j) : j \in AppointmentUpdateMaps}

\* An appointment handler run as one step.
ServeAppointment(handler, url, body, h) ==
  /\ Len(h.db) > Len(appointments) => Len(appointments) < MaxRecords
  /\ appointments' = h.db
  /\ last' = h.last
  /\ http' = Request(handler, url, body, h)
  /\ UNCHANGED <<users, services, invoices, upd, del>>

CreateAppointmentReq ==
  \E body \in CreateAppointmentBodies :
    ServeAppointment("CreateAppointment", MalformedID, body,
                     CreateAppointment(appointments, body))

GetAppointmentReq ==
  \E url \in URLIDs :
    ServeAppointment("GetAppointment", url, MalformedBody, GetAppointment(appointments, url))

UpdateAppointmentReq ==
  \E url \in URLIDs, body \in UpdateAppointmentBodies :
    ServeAppointment("UpdateAppointment", url, body,
                     UpdateAppointment(appointments, url, body))

DeleteAppointmentReq ==
  \E url \in URLIDs :
    ServeAppointment("DeleteAppointment", url, MalformedBody,
                     DeleteAppointment(appointments, url))

NextAppointments ==
  \/ CreateAppointmentReq
  \/ GetAppointmentReq
  \/ UpdateAppointmentReq
  \/ DeleteAppointmentReq

SpecAppointments == Init /\ [][NextAppointments]_vars

----------------------------------------------------------------------------
(* HashPassword and CheckPassword on a user struct, no database involved *)

PasswordInputs == Passwords \cup UpdatePasswords \cup {"", "Secret", Long72, Long73}

PasswordUsers == {[ZeroUser EXCEPT !.email = e] : e \in Emails}

HashPasswordCall ==
  \E user \in PasswordUsers, password \in PasswordInputs :
    \E h \in HashPassword(user, password) :
      /\ last' = [op |-> "HashPassword", user |-> h.user, password |-> password,
                  hashed |-> h.err = Nil, err |-> h.err]
      /\ UNCHANGED <<users, services, invoices, appointments, http, upd, del>>

\* CheckPassword on the user HashPassword was last called on.
CheckPasswordCall ==
  \E providedPassword \in PasswordInputs :
    /\ last.op \in {"HashPassword", "CheckPassword"}
    /\ last.hashed
    /\ last' = [op |-> "CheckPassword", user |-> last.user, password |-> last.password,
                hashed |-> TRUE, providedPassword |-> providedPassword,
                err |-> CheckPassword(last.user, providedPassword)]
    /\ UNCHANGED <<users, services, invoices, appointments, http, upd, del>>

NextPassword ==
  \/ HashPasswordCall
  \/ CheckPasswordCall

SpecPassword == Init /\ [][NextPassword]_vars

----------------------------------------------------------------------------
(* Registration: CreateUser with every kind of body, and DeleteUser *)

RegistrationBodies ==
  CreateUserBodies \cup
  {JSONBody(j) : j \in [email : Emails, password : {Long73}, first_name : FirstNames]}

RegistrationReq ==
  \E body \in RegistrationBodies :
    \E h \in CreateUser(users, body) : Serve("CreateUser", 0, body, h)

NextRegistration ==
  \/ RegistrationReq
  \/ DeleteUserReq

SpecRegistration == Init /\ [][NextRegistration]_vars

----------------------------------------------------------------------------
(* Updates that empty a field: "" and null values in the updates map *)

EmptyValues == {"", Null}

PatchUserMaps ==
  {Restrict(j, K) :
     j \in [email : EmptyValues, first_name : EmptyValues \cup {"Bob"}],
     K \in SUBSET {"email", "first_name"}}

PatchServiceMaps ==
  {Restrict(j, K) : j \in [name : EmptyValues, price : UpdateServicePrices],
                    K \in SUBSET {"name", "price"}}

PatchUserReq ==
  \E id \in RequestIDs, m \in PatchUserMaps :
    Serve("UpdateUser", id, JSONBody(m), UpdateUser(users, id, JSONBody(m)))

PatchServiceCall ==
  \E id \in RequestIDs, m \in PatchServiceMaps :
    CallService("Update", id, m, ServiceUpdate(services, id, m))

NextPatch ==
  \/ CreateUserReq
  \/ PatchUserReq
  \/ ServiceCreateCall
  \/ PatchServiceCall

SpecPatch == Init /\ [][NextPatch]_vars

----------------------------------------------------------------------------
(* A user's appointments with their services *)

BookedServices == 1 .. MaxRecords

BookingBodies ==
  {JSONBody(j) : j \in [service_id : BookedServices, user_id : UserRefs]}

BookReq ==
  \E body \in BookingBodies :
    ServeAppointment("CreateAppointment", MalformedID, body,
                     CreateAppointment(appointments, body))

GetServiceAppointmentsCall ==
  \E userID \in RequestIDs :
    /\ last' = Returned("User", "GetServiceAppointments", userID, <<>>,
                        GetServiceAppointments(appointments, services, userID))
    /\ http' = NoRequest
    /\ UNCHANGED <<users, services, invoices, appointments, upd, del>>

HasServiceAppointmentCall ==
  \E userID \in RequestIDs, serviceID \in BookedServices, closed \in BOOLEAN :
    /\ last' = [Returned("User", "HasServiceAppointment", userID, <<>>,
                          HasServiceAppointment(appointments, closed, userID, serviceID))
                 EXCEPT !.updates = [serviceID |-> serviceID, closed |-> closed]]
    /\ http' = NoRequest
    /\ UNCHANGED <<users, services, invoices, appointments, upd, del>>

NextServiceAppointments ==
  \/ ServiceCreateCall
  \/ ServiceDeleteCall
  \/ BookReq
  \/ DeleteAppointmentReq
  \/ GetServiceAppointmentsCall
  \/ HasServiceAppointmentCall

SpecServiceAppointments == Init /\ [][NextServiceAppointments]_vars

----------------------------------------------------------------------------
(* Properties *)

\* A row of db with this ID that is not soft-deleted.
Stored(db, id) == id \in 1 .. Len(db) /\ db[id].DeletedAt = FALSE

UpdateOfMissing(type, db, dbNext) ==
  (last'.op = "Update" /\ last'.type = type /\ ~Stored(db, last'.id))
    => (last'.err = ErrRecordNotFound /\ dbNext = db)

\* C1: for User, Service and Invoice, Update(id, updates) on an id with no
\* record (never created, or already deleted) returns the not-found error
\* and leaves every row of every table as it was.
C1_UpdateMissingNotFound ==
  [][/\ UpdateOfMissing("User", users, users')
     /\ UpdateOfMissing("Service", services, services')
     /\ UpdateOfMissing("Invoice", invoices, invoices')
     /\ (last'.op = "Update" /\ last'.err = ErrRecordNotFound)
          => UNCHANGED <<users, services, invoices>>]_vars

\* An Invoice update of an id beyond the table, with another invoice stored
\* and a non-empty updates map, has returned.
C1_Witness ==
  /\ last.op = "Update" /\ last.type = "Invoice"
  /\ Len(invoices) = 1 /\ last.id = 2
  /\ "remaining_balance" \in DOMAIN last.updates
  /\ last.err = ErrRecordNotFound

DeleteOfMissing(type, db, dbNext) ==
  (last'.op = "Delete" /\ last'.type = type /\ ~Stored(db, last'.id))
    => (last'.err = ErrRecordNotFound /\ dbNext = db)

\* C2: for User, Service and Invoice, Delete(id) on an id with no record
\* returns the not-found error and leaves every row of every table as it
\* was: nothing is removed or marked deleted.
C2_DeleteMissingNotFound ==
  [][/\ DeleteOfMissing("User", users, users')
     /\ DeleteOfMissing("Service", services, services')
     /\ DeleteOfMissing("Invoice", invoices, invoices')
     /\ (last'.op = "Delete" /\ last'.err = ErrRecordNotFound)
          => UNCHANGED <<users, services, invoices>>]_vars

\* A Service delete of an id beyond the table, with another service stored
\* and live, has returned.
C2_Witness ==
  /\ last.op = "Delete" /\ last.type = "Service"
  /\ Len(services) = 1 /\ last.id = 2 /\ ~services[1].DeletedAt
  /\ last.err = ErrRecordNotFound

\* new is E with exactly the keys of M overwritten by M's values.
Patched(E, M, new) ==
  /\ DOMAIN new = DOMAIN E
  /\ \A k \in DOMAIN E : new[k] = IF k \in DOMAIN M THEN M[k] ELSE E[k]

UpdateOfStored(type, db, dbNext) ==
  (last'.op = "Update" /\ last'.type = type /\ Stored(db, last'.id))
    => /\ last'.err = Nil
       /\ DOMAIN last'.updates \subseteq DOMAIN db[last'.id]
       /\ Patched(db[last'.id], last'.updates, dbNext[last'.id])
       /\ Patched(db[last'.id], last'.updates, last'.rec)
       /\ last'.updates = <<>> => dbNext[last'.id] = db[last'.id]

\* C3 as stated: for every stored entity E and every updates map M over E's
\* fields, Update(E.id, M) stores and returns E with the keys of M
\* overwritten, and an empty M leaves the stored entity unchanged.
C3_UpdatePatchesAlways ==
  [][/\ UpdateOfStored("User", users, users')
     /\ UpdateOfStored("Service", services, services')
     /\ UpdateOfStored("Invoice", invoices, invoices')]_vars

\* C4: the password column of every user row holds a bcrypt hash, never a
\* plaintext password taken from a request body.
C4_PasswordAlwaysHashed ==
  \A i \in 1 .. Len(users) : users[i].password \in BcryptHashes

\* The request authenticates with the email and password of a stored user.
LoginOfUser ==
  /\ http.handler = "Authenticate" /\ http.body.valid
  /\ \E i \in 1 .. Len(users) :
       /\ ~users[i].DeletedAt
       /\ users[i].email = http.body.json.email
       /\ users[i].password = Bcrypt(http.body.json.password)

SessionIssued ==
  \/ http.cookies # <<>>
  \/ \E i \in 1 .. Len(http.writer) :
       "payload" \in DOMAIN http.writer[i] /\ "token" \in DOMAIN http.writer[i].payload

\* C5: a login with the email and password a user was created with answers
\* 200 and issues a session artifact (a token or a session cookie).
C5_LoginSucceedsWithSession ==
  LoginOfUser => /\ Len(http.writer) = 1
                 /\ http.writer[1].status = 200
                 /\ SessionIssued

\* The request names the email of a stored user with another password.
LoginWithWrongPassword ==
  /\ http.handler = "Authenticate" /\ http.body.valid
  /\ \E i \in 1 .. Len(users) :
       /\ ~users[i].DeletedAt
       /\ users[i].email = http.body.json.email
       /\ users[i].password \in BcryptHashes
       /\ users[i].password # Bcrypt(http.body.json.password)

\* C6: a login with an existing user's email and a wrong password ends in
\* the WrongPassword error response, with no success response and no
\* session artifact.
C6_WrongPasswordRejected ==
  LoginWithWrongPassword
    => /\ Len(http.writer) = 1
       /\ http.writer[1].status >= 400
       /\ "error" \in DOMAIN http.writer[1]
       /\ http.writer[1].error = "Incorrect password."
       /\ ~SessionIssued

\* The request names an email no stored user has.
LoginOfUnknownEmail ==
  /\ http.handler = "Authenticate" /\ http.body.valid
  /\ \A i \in 1 .. Len(users) :
       users[i].DeletedAt \/ users[i].email # http.body.json.email

\* C7: a login whose email matches no user is answered with an error
\* response carrying an HTTP error status; the lookup failure is not
\* swallowed.
C7_UnknownUserSurfaced ==
  LoginOfUnknownEmail
    => /\ Len(http.writer) = 1
       /\ http.writer[1].status >= 400
       /\ "error" \in DOMAIN http.writer[1]

AuthSteps == <<"decode", "lookup", "check", "success">>

\* C8: every run of Authenticate goes through decode, user lookup, password
\* check, success in that order; the password check runs only on a user row
\* the lookup returned, the success response only after the provided
\* password matched that row's stored hash, and a step that fails is the
\* last one.
C8_AuthenticateOrder ==
  http.handler = "Authenticate" =>
    LET n == Len(http.steps)
        ok == {i \in 1 .. Len(http.writer) : http.writer[i].status = 200}
    IN /\ n \in 1 .. 4 /\ http.steps = SubSeq(AuthSteps, 1, n)
       /\ n = 1 <=> ~http.body.valid
       /\ n >= 2 => last.op = "GetUserByEmail"
       /\ n = 2 <=> (http.body.valid /\ last.err # Nil)
       /\ n >= 3 => \E i \in 1 .. Len(users) : ~users[i].DeletedAt /\ last.rec = users[i]
       /\ n = 4 => last.rec.password = Bcrypt(http.body.json.password)
       /\ n = 3 => last.rec.password # Bcrypt(http.body.json.password)
       /\ ok # {} <=> n = 4

\* A run of Authenticate reached the success response.
C8_Witness ==
  /\ http.handler = "Authenticate"
  /\ http.steps = AuthSteps
  /\ http.writer[1].status = 200

\* C9: when Delete completes between Update's Get and Update's write, the
\* write runs on an already deleted row and Update still returns success,
\* not NotFound.
C9_UpdateAfterDeleteSucceeds ==
  (upd.pc = "done" /\ upd.gone) => upd.err = Nil

\* Update passed its existence check, a Delete of the same id completed,
\* and Update then wrote and returned success.
C9_Witness ==
  /\ upd.pc = "done" /\ upd.gone /\ upd.err = Nil
  /\ upd.updates # <<>>
  /\ del.pc = "done" /\ del.err = Nil /\ del.id = upd.id
  /\ users[upd.id].DeletedAt

StatusOf(remaining_balance) ==
  IF remaining_balance = 0 THEN "Paid"
  ELSE IF remaining_balance > 0 THEN "Unpaid" ELSE "Overpaid"

\* C10: the status of every stored invoice agrees with its remaining
\* balance: Paid at 0, Unpaid above 0, Overpaid below 0.
C10_StatusFollowsBalance ==
  \A i \in 1 .. Len(invoices) :
    invoices[i].status = StatusOf(invoices[i].remaining_balance)

ActiveHaveNoCancelTime(db) ==
  \A i \in 1 .. Len(db) : db[i].active => db[i].cancel_date_time = NullTime

\* The request cancels a stored appointment: its body sets active to false
\* and names neither service_id nor user_id.
CancelOfStored ==
  /\ http'.handler = "UpdateAppointment"
  /\ http'.id.valid /\ http'.body.valid
  /\ Stored(appointments, http'.id.id)
  /\ "active" \in DOMAIN http'.body.json /\ ~http'.body.json.active
  /\ DOMAIN http'.body.json \cap {"service_id", "user_id"} = {}

Cancelled(old, new) ==
  /\ ~new.active
  /\ new.cancel_date_time # NullTime
  /\ new.service_id = old.service_id
  /\ new.user_id = old.user_id

ListingExcludesDeleted ==
  (last.op = "GetAll") =>
    /\ \A i \in 1 .. Len(last.rec) : Stored(users, last.rec[i].ID) /\ last.rec[i] = users[last.rec[i].ID]
    /\ \A id \in 1 .. Len(users) :
         Stored(users, id) <=> \E i \in 1 .. Len(last.rec) : last.rec[i].ID = id
    /\ \A i, j \in 1 .. Len(last.rec) : i < j => last.rec[i].ID < last.rec[j].ID

\* User.Get was called with the id of a deleted user.
GetOfDeleted ==
  /\ last.op = "Get" /\ last.type = "User"
  /\ last.id \in 1 .. Len(users) /\ users[last.id].DeletedAt

EmailsDiffer(db) ==
  \A i, j \in 1 .. Len(db) : i # j => db[i].email # db[j].email

\* The call gives a user an email that another row of the table holds.
TakesHeldEmail ==
  /\ last'.op \in {"Create", "Update"} /\ last'.type = "User"
  /\ "email" \in DOMAIN last'.updates
  /\ \E i \in 1 .. Len(users) : i # last'.id /\ users[i].email = last'.updates.email

\* C13: no two user rows have the same email, and a Create or Update that
\* would give a user an email another user holds returns an error and
\* leaves the users table as it was.
C13_EmailUnique ==
  /\ EmailsDiffer(users)
  /\ [][/\ EmailsDiffer(users')
        /\ TakesHeldEmail => (last'.err # Nil /\ users' = users)]_vars

\* An update of user 2 to the email of user 1 was rejected.
C13_Witness ==
  /\ last.op = "Update" /\ last.type = "User" /\ last.id = 2
  /\ Len(users) = 2 /\ ~users[2].DeletedAt
  /\ "email" \in DOMAIN last.updates /\ last.updates.email = users[1].email
  /\ last.err = ErrDuplicatedKey

SameFirst72(p, p2) == p = p2 \/ {p, p2} = {Long72, Long73}

C15_MissingUserIs404 ==
  (http.handler \in {"UpdateUser", "DeleteUser"} /\ last.op \in {"Update", "Delete"})
    => /\ last.err = ErrRecordNotFound
            => (Len(http.writer) = 1 /\ http.writer[1].status = 404)
       /\ last.err \notin {Nil, ErrRecordNotFound}
            => (Len(http.writer) = 1 /\ http.writer[1].status = 500)

\* C16: GetUser for an id that is not in the store answers 404 with an
\* error payload and then returns normally; it does not end in a panic.
C16_GetUserMissingCompletes ==
  (http.handler = "GetUser" /\ last.op = "Get" /\ last.err = ErrRecordNotFound)
    => /\ Len(http.writer) = 1
       /\ http.writer[1].status = 404
       /\ "error" \in DOMAIN http.writer[1]
       /\ ~http.panicked

\* The user row a successful CreateUser request adds for this body.
Registered(db, json) ==
  [ZeroUser EXCEPT !.ID = Len(db) + 1, !.email = json.email,
                   !.first_name = json.first_name,
                   !.password = "$2a$14$" \o (IF json.password = Long73 THEN Long72
                                               ELSE json.password)]

EmailHeld(db, email) == \E i \in 1 .. Len(db) : db[i].email = email

DeleteOfStored(type, db, dbNext) ==
  (last'.op = "Delete" /\ last'.type = type /\ last'.err = Nil)
    => /\ Stored(db, last'.id)
       /\ Len(dbNext) = Len(db)
       /\ dbNext[last'.id].DeletedAt
       /\ \A k \in DOMAIN db[last'.id] \ {"DeletedAt"} :
            dbNext[last'.id][k] = db[last'.id][k] /\ last'.rec[k] = db[last'.id][k]
       /\ DOMAIN last'.rec = DOMAIN db[last'.id]
       /\ last'.rec.DeletedAt

\* C18: a successful Delete(id) keeps the row in its table, sets its
\* deletion marker and returns the record as it was stored, every field
\* unchanged except the marker, which is set.
C18_DeleteReturnsMarkedRecord ==
  [][/\ DeleteOfStored("User", users, users')
     /\ DeleteOfStored("Service", services, services')
     /\ DeleteOfStored("Invoice", invoices, invoices')]_vars

\* DeleteUser has answered 200 with user 1, now marked deleted.
C18_Witness ==
  /\ last.op = "Delete" /\ last.type = "User" /\ last.err = Nil /\ last.id = 1
  /\ users[1].DeletedAt /\ users[1].email # ""
  /\ last.rec = users[1]
  /\ http.handler = "DeleteUser"
  /\ http.writer = <<[status |-> 200, payload |-> users[1]]>>

\* The value of M for key k is the empty string or null.
Empties(M, k) == k \in StringColumns /\ M[k] \in EmptyValues

\* Keys of M with an empty value hold "" in new; keys left out of M hold
\* what they held in old.
EmptiedOrKept(old, M, new) ==
  /\ \A k \in DOMAIN M : Empties(M, k) => new[k] = ""
  /\ \A k \in DOMAIN old \ DOMAIN M : new[k] = old[k]

\* C19 as stated: in Update(id, M) on a stored entity, a key of M with an
\* empty-string or null value leaves that field of the stored entity empty,
\* and a key omitted from M leaves the field as it was.
C19_EmptyValueEmptiesField ==
  [][/\ (last'.op = "Update" /\ last'.type = "User" /\ Stored(users, last'.id))
          => EmptiedOrKept(users[last'.id], last'.updates, users'[last'.id])
     /\ (last'.op = "Update" /\ last'.type = "Service" /\ Stored(services, last'.id))
          => EmptiedOrKept(services[last'.id], last'.updates, services'[last'.id])]_vars

\* The store rejects the updates M of user id: a null for a column declared
\* not null, or an email that another user holds.
PatchRejected(db, id, M) ==
  \/ \E k \in DOMAIN M \cap {"email", "password", "account_type", "first_name", "last_name"} :
       M[k] = Null
  \/ "email" \in DOMAIN M /\ \E i \in 1 .. Len(db) : i # id /\ db[i].email = M.email

\* C19 amended: an accepted Update(id, M) leaves every field whose key has
\* an empty-string or null value in M empty (so changed, if it was not
\* empty) and every field whose key is omitted as it was; a null for a
\* not-null column of User, or an email another user holds, is rejected
\* with an error and the stored entity stays as it was.
C19_EmptyValueEmptiesUnlessRejected ==
  [][/\ (last'.op = "Update" /\ last'.type = "User" /\ Stored(users, last'.id))
          => IF PatchRejected(users, last'.id, last'.updates)
               THEN last'.err # Nil /\ users' = users
               ELSE /\ last'.err = Nil
                    /\ EmptiedOrKept(users[last'.id], last'.updates, users'[last'.id])
     /\ (last'.op = "Update" /\ last'.type = "Service" /\ Stored(services, last'.id))
          => /\ last'.err = Nil
             /\ EmptiedOrKept(services[last'.id], last'.updates, services'[last'.id])]_vars

\* A user's first name was emptied by {"first_name": ""}, the email,
\* left out of the map, being kept.
C19_Witness ==
  /\ last.op = "Update" /\ last.type = "User" /\ last.err = Nil
  /\ last.updates = [first_name |-> ""]
  /\ last.rec.first_name = "Ann"
  /\ users[last.id].first_name = "" /\ users[last.id].email = last.rec.email
  /\ users[last.id].email # ""

\* The appointments of a user, in appointment order.
AppointmentsOf(userID) ==
  SelectSeq(appointments, LAMBDA a : ~a.DeletedAt /\ a.user_id = userID)

\* C20: GetServiceAppointments(userID) returns one element per appointment
\* of the user, in appointment order, element i holding the i-th
\* appointment and the Service record whose ID is that appointment's
\* service_id; it returns an error if a referenced service does not exist.
C20_OneServicePerAppointment ==
  last.op = "GetServiceAppointments" =>
    LET appts == AppointmentsOf(last.id) IN
    IF \A i \in 1 .. Len(appts) : Stored(services, appts[i].service_id)
      THEN /\ last.err = Nil
           /\ Len(last.rec) = Len(appts)
           /\ \A i \in 1 .. Len(appts) :
                /\ last.rec[i].appointment = appts[i]
                /\ last.rec[i].service = services[appts[i].service_id]
    ELSE last.err # Nil

\* C22: HasServiceAppointment(userID, serviceID) returns true exactly when
\* the user's appointments include one whose service_id is serviceID,
\* false with no error when they include none, and false with an error when
\* the appointment lookup fails.
C22_HasServiceAppointment ==
  last.op = "HasServiceAppointment" =>
    IF last.updates.closed THEN last.rec = FALSE /\ last.err # Nil
    ELSE /\ last.err = Nil
         /\ last.rec <=> \E i \in 1 .. Len(appointments) :
                           /\ ~appointments[i].DeletedAt
                           /\ appointments[i].user_id = last.id
                           /\ appointments[i].service_id = last.updates.serviceID

\* The user's second appointment, not the first, is for the service asked
\* about, and the answer is true.
C22_Witness ==
  /\ last.op = "HasServiceAppointment" /\ last.rec = TRUE /\ last.err = Nil
  /\ Len(AppointmentsOf(last.id)) >= 2
  /\ AppointmentsOf(last.id)[1].service_id # last.updates.serviceID
  /\ AppointmentsOf(last.id)[2].service_id = last.updates.serviceID

UserHandlers == {"CreateUser", "Authenticate", "GetUser", "UpdateUser", "DeleteUser"}

\* C23: every run of a user handler writes exactly one response, on every
\* path: never none, never an error response followed by a success response.
C23_ExactlyOneResponse ==
  http.handler \in UserHandlers => Len(http.writer) = 1

\* Every row of db marked deleted is the same in db2, and an Update or
\* Delete of type on such a row's id has returned the not-found error and
\* left the tables as they were.
DeletedStays(type, db, db2) ==
  \A id \in 1 .. Len(db) :
    db[id].DeletedAt =>
      /\ db2[id] = db[id]
      /\ (last'.op \in {"Update", "Delete"} /\ last'.type = type /\ last'.id = id)
           => /\ last'.err = ErrRecordNotFound
              /\ UNCHANGED <<users, services, invoices>>

\* C24: once Delete(id) has succeeded, every later Update(id, M) and every
\* later Delete(id) returns the not-found error and changes nothing in the
\* store: a record is deleted at most once and never modified afterwards.
C24_NothingAfterDelete ==
  [][/\ DeletedStays("User", users, users')
     /\ DeletedStays("Service", services, services')
     /\ DeletedStays("Invoice", invoices, invoices')]_vars

\* An Update with a non-empty map on the id of an invoice deleted earlier
\* has returned not-found.
C24_Witness ==
  /\ last.op = "Update" /\ last.type = "Invoice" /\ last.updates # <<>>
  /\ last.id \in 1 .. Len(invoices) /\ invoices[last.id].DeletedAt
  /\ last.err = ErrRecordNotFound

\* An Update or Delete of type has left every row of db with another id,
\* and the number of rows, as they were.
OtherRowsKept(type, db, db2) ==
  (last'.op \in {"Update", "Delete"} /\ last'.type = type) =>
    /\ Len(db2) = Len(db)
    /\ \A j \in 1 .. Len(db) : j # last'.id => db2[j] = db[j]

\* An Update or Delete of type has taken place in this step.
Touches(type) == last'.op \in {"Update", "Delete"} /\ last'.type = type

\* C25: Update(id, M) and Delete(id), whether they succeed or fail, leave
\* every record with another id unchanged and every record of the other
\* entity types unchanged: deleting a user or a service does not touch its
\* appointments or invoices.
C25_OtherRecordsUnchanged ==
  [][/\ OtherRowsKept("User", users, users')
     /\ OtherRowsKept("Service", services, services')
     /\ OtherRowsKept("Invoice", invoices, invoices')
     /\ Touches("User") => UNCHANGED <<services, invoices, appointments>>
     /\ Touches("Service") => UNCHANGED <<users, invoices, appointments>>
     /\ Touches("Invoice") => UNCHANGED <<users, services, appointments>>]_vars

\* A user was deleted while a stored invoice refers to that user; the
\* invoice is still stored.
C25_Witness ==
  /\ last.op = "Delete" /\ last.type = "User" /\ last.err = Nil
  /\ last.id \in 1 .. Len(users) /\ users[last.id].DeletedAt
  /\ \E i \in 1 .. Len(invoices) :
       invoices[i].user_id = last.id /\ ~invoices[i].DeletedAt
====
